---- MODULE Spec2Model ----
(***************************************************************************)
(* Model of src/src/core.ts: the batched output writer write() and the     *)
(* recursive content extractor extractContentRecursively().                *)
(*                                                                         *)
(* JavaScript strings are sequences of one-character strings, so that      *)
(* trim(), String.replace(), template literals and JSON.stringify() are    *)
(* computed, not assumed.  An optional value (a config field that may be   *)
(* undefined, the number-or-false result of isWithinTokenLimit) is the     *)
(* empty tuple when absent and a one-element tuple when present.           *)
(***************************************************************************)
EXTENDS Integers, Sequences, FiniteSets, TLC

VARIABLES
    \* ---- write() ----
    config,               \* the Config object handed to write()
    jsonFiles,            \* the parsed contents of the globbed files, in glob order
    fileIdx,              \* position of the for..of loop over jsonFiles
    currentResults,       \* let currentResults
    currentSize,          \* let currentSize
    fileCounter,          \* let fileCounter
    estimatedTokens,      \* let estimatedTokens
    nextFileNameString,   \* let nextFileNameString
    written,              \* the writeFile() calls made so far, in order
    pc,                   \* "loop" while write() runs, "done" once it returned
    returned,             \* the value write() returned
    \* ---- extractContentRecursively() ----
    doc,                  \* the value handed to the top-level call
    extracted,            \* the fragments the call returned
    seen,                 \* the Set the call worked on, as it left it
    threw,                \* whether the call threw
    visited,              \* the nodes the call went into (got past the seen check)
    epc,                  \* "idle", "call" before the call, "done" after it
    \* ---- crawl() ----
    pages,                \* per page: "queued", "open" (requestHandler running), "closed"
    pageCounter,          \* let pageCounter
    handlers,             \* the response-listener invocations so far, in order
    dataset,              \* the records pushData() has persisted, in order
    crawlDone,            \* whether crawler.run() has resolved
    crashed               \* whether a listener's promise rejected unhandled

wvars == <<config, jsonFiles, fileIdx, currentResults, currentSize, fileCounter,
           estimatedTokens, nextFileNameString, written, pc, returned>>

evars == <<doc, extracted, seen, threw, visited, epc>>

cvars == <<pages, pageCounter, handlers, dataset, crawlDone, crashed>>

vars == <<wvars, evars, cvars>>

-----------------------------------------------------------------------------
(* Bounds *)

\* longest list of intermediate files
MaxFiles == 5

\* levels of generated containers around the leaf documents
MaxDepth == 1

-----------------------------------------------------------------------------
(* Strings *)

\* the decimal rendering of a natural number, as `${n}` gives it
RECURSIVE DecimalString(_)
DecimalString(n) ==
    LET digit == <<"0", "1", "2", "3", "4", "5", "6", "7", "8", "9">>
    IN  IF n < 10 THEN <<digit[n + 1]>>
        ELSE DecimalString(n \div 10) \o <<digit[(n % 10) + 1]>>

DotJson == <<".", "j", "s", "o", "n">>

\* str.replace(/\.json$/, ""): drops one trailing ".json"
StripDotJson(str) ==
    IF Len(str) >= Len(DotJson)
       /\ SubSeq(str, Len(str) - Len(DotJson) + 1, Len(str)) = DotJson
    THEN SubSeq(str, 1, Len(str) - Len(DotJson))
    ELSE str

-----------------------------------------------------------------------------
(* write(): inputs *)

\* A PageRecord as write() sees it: `bytes` is Buffer.byteLength of its
\* JSON.stringify() text, `tokens` the number of tokens the tokenizer counts
\* in that text.  `page` tells records of equal measure apart.
PageRecords ==
    { [page |-> "A", bytes |-> 102400, tokens |-> 3],
      [page |-> "B", bytes |-> 307200, tokens |-> 5],
      [page |-> "C", bytes |-> 40960,  tokens |-> 9],
      [page |-> "D", bytes |-> 102400, tokens |-> 4],
      [page |-> "E", bytes |-> 307200, tokens |-> 9] }

\* config.maxFileSize is a number of MB; [num, den] stands for num/den.
MaxFileSizes == { <<>>, <<[num |-> 250, den |-> 1024]>>, <<[num |-> 1, den |-> 1]>> }

MaxTokenses == { <<>>, <<8>>, <<12>> }

OutputFileNames == { <<"o", "u", "t">>, <<"o", ".", "j", "s", "o", "n">> }

Configs ==
    [maxFileSize : MaxFileSizes, maxTokens : MaxTokenses,
     outputFileName : OutputFileNames]

FileLists == UNION { [1..n -> PageRecords] : n \in 0..MaxFiles }

-----------------------------------------------------------------------------
(* write(): helpers *)

\* JavaScript's Infinity: larger than every size the model reaches
Infinity == 2147483647

\* const maxBytes = config.maxFileSize ? config.maxFileSize * 1024 * 1024 : Infinity
maxBytes(cfg) ==
    IF cfg.maxFileSize # <<>> /\ cfg.maxFileSize[1].num # 0
    THEN (cfg.maxFileSize[1].num * 1024 * 1024) \div cfg.maxFileSize[1].den
    ELSE Infinity

\* getStringByteSize(JSON.stringify(data))
getStringByteSize(data) == data.bytes

\* `${config.outputFileName.replace(/\.json$/, "")}-${fileCounter}.json`
nextFileName(cfg, counter) ==
    StripDotJson(cfg.outputFileName) \o <<"-">> \o DecimalString(counter) \o DotJson

\* isWithinTokenLimit(text, limit) of gpt-tokenizer: false (<<>>) when the text
\* has more than `limit` tokens, the token count otherwise
isWithinTokenLimit(data, limit) ==
    IF data.tokens > limit THEN <<>> ELSE <<data.tokens>>

\* config.maxTokens || Infinity
TokenLimit(cfg) ==
    IF cfg.maxTokens # <<>> /\ cfg.maxTokens[1] # 0 THEN cfg.maxTokens[1] ELSE Infinity

\* mutant: the comparison is >= instead of >
ExceedsMaxTokensOrEqual(cfg, estimate, tokenCount) ==
    cfg.maxTokens # <<>> /\ estimate + tokenCount >= cfg.maxTokens[1]

\* mutant: an undefined maxTokens compares as 0
ExceedsMaxTokensUndefinedAsZero(cfg, estimate, tokenCount) ==
    estimate + tokenCount > (IF cfg.maxTokens # <<>> THEN cfg.maxTokens[1] ELSE 0)

\* estimatedTokens + tokenCount > config.maxTokens!   (x > undefined is false)
ExceedsMaxTokens(cfg, estimate, tokenCount) ==
    cfg.maxTokens # <<>> /\ estimate + tokenCount > cfg.maxTokens[1]

\* The mutable locals of write() as one record.
WriterState ==
    [currentResults |-> currentResults, currentSize |-> currentSize,
     fileCounter |-> fileCounter, estimatedTokens |-> estimatedTokens,
     nextFileNameString |-> nextFileNameString, written |-> written]

\* mutant: the flush does not reset currentSize
writeBatchToFileKeepsSize(cfg, s) ==
    LET name == nextFileName(cfg, s.fileCounter)
    IN  [s EXCEPT !.nextFileNameString = name,
                  !.written = Append(@, [name |-> name, content |-> s.currentResults]),
                  !.currentResults = <<>>,
                  !.fileCounter = @ + 1]

\* mutant: the flush does not increment fileCounter
writeBatchToFileSameCounter(cfg, s) ==
    LET name == nextFileName(cfg, s.fileCounter)
    IN  [s EXCEPT !.nextFileNameString = name,
                  !.written = Append(@, [name |-> name, content |-> s.currentResults]),
                  !.currentResults = <<>>,
                  !.currentSize = 0]

\* mutant: the flush also resets estimatedTokens
writeBatchToFileResetsTokens(cfg, s) ==
    LET name == nextFileName(cfg, s.fileCounter)
    IN  [s EXCEPT !.nextFileNameString = name,
                  !.written = Append(@, [name |-> name, content |-> s.currentResults]),
                  !.currentResults = <<>>,
                  !.currentSize = 0,
                  !.estimatedTokens = 0,
                  !.fileCounter = @ + 1]

\* mutant: the flush does not empty currentResults
writeBatchToFileKeepsBatch(cfg, s) ==
    LET name == nextFileName(cfg, s.fileCounter)
    IN  [s EXCEPT !.nextFileNameString = name,
                  !.written = Append(@, [name |-> name, content |-> s.currentResults]),
                  !.currentSize = 0,
                  !.fileCounter = @ + 1]

\* writeBatchToFile(): the file's content is the parsed-back JSON array.
writeBatchToFile(cfg, s) ==
    LET name == nextFileName(cfg, s.fileCounter)
    IN  [s EXCEPT !.nextFileNameString = name,
                  !.written = Append(@, [name |-> name, content |-> s.currentResults]),
                  !.currentResults = <<>>,
                  !.currentSize = 0,
                  !.fileCounter = @ + 1]

\* the token branch of addContentOrSplit (lines 280-293)
TokenStep(cfg, s, data) ==
    LET tokenCount == isWithinTokenLimit(data, TokenLimit(cfg))
    IN  IF tokenCount # <<>>
        THEN IF ExceedsMaxTokens(cfg, s.estimatedTokens, tokenCount[1])
             THEN LET f == IF Len(s.currentResults) > 0
                           THEN writeBatchToFile(cfg, s) ELSE s
                  IN  [f EXCEPT !.estimatedTokens = tokenCount[1] \div 2,
                                !.currentResults = Append(@, data)]
             ELSE [s EXCEPT !.currentResults = Append(@, data),
                            !.estimatedTokens = @ + tokenCount[1]]
        ELSE s

\* mutant: currentSize is set to the record's size instead of growing by it
ByteStepNoAccumulation(cfg, s, data) ==
    LET t == [s EXCEPT !.currentSize = getStringByteSize(data)]
    IN  IF t.currentSize > maxBytes(cfg) THEN writeBatchToFile(cfg, t) ELSE t

\* the byte branch of addContentOrSplit (lines 295-298)
ByteStep(cfg, s, data) ==
    LET t == [s EXCEPT !.currentSize = @ + getStringByteSize(data)]
    IN  IF t.currentSize > maxBytes(cfg) THEN writeBatchToFile(cfg, t) ELSE t

\* addContentOrSplit(data)
addContentOrSplit(cfg, s, data) == ByteStep(cfg, TokenStep(cfg, s, data), data)

SetWriterState(s) ==
    /\ currentResults' = s.currentResults
    /\ currentSize' = s.currentSize
    /\ fileCounter' = s.fileCounter
    /\ estimatedTokens' = s.estimatedTokens
    /\ nextFileNameString' = s.nextFileNameString
    /\ written' = s.written


-----------------------------------------------------------------------------
(* String literals, spelled as characters *)

\* "null"
LIT_null == <<"n", "u", "l", "l">>

\* "true"
LIT_true == <<"t", "r", "u", "e">>

\* "false"
LIT_false == <<"f", "a", "l", "s", "e">>

\* "undefined"
LIT_undefined == <<"u", "n", "d", "e", "f", "i", "n", "e", "d">>

\* "[object Object]"
LIT_objectObject == <<"[", "o", "b", "j", "e", "c", "t", " ", "O", "b", "j", "e", "c", "t", "]">>

\* "Link"
LIT_Link == <<"L", "i", "n", "k">>

\* "Image: "
LIT_ImageColon == <<"I", "m", "a", "g", "e", ":", " ">>

\* "text"
KEY_text == <<"t", "e", "x", "t">>

\* "href"
KEY_href == <<"h", "r", "e", "f">>

\* "src"
KEY_src == <<"s", "r", "c">>

\* "id"
KEY_id == <<"i", "d">>

\* "child"
KEY_child == <<"c", "h", "i", "l", "d">>

\* "Hi"
LIT_Hi == <<"H", "i">>

\* " Hi "
LIT_HiPadded == <<" ", "H", "i", " ">>

\* "P"
LIT_P == <<"P">>

\* "u"
LIT_u == <<"u">>

\* "v"
LIT_v == <<"v">>

\* "i"
LIT_i == <<"i">>

\* {"text":"Hi"}
LIT_HiNodeJson == <<"{", "\"", "t", "e", "x", "t", "\"", ":", "\"", "H", "i", "\"", "}">>

\* {"id":1,"text":"Hi"}
LIT_IdHiNodeJson ==
    <<"{", "\"", "i", "d", "\"", ":", "1", ",", "\"", "t", "e", "x", "t", "\"", ":", "\"", "H", "i", "\"", "}">>

\* "https://x.test/a"
LIT_pageA == <<"h", "t", "t", "p", "s", ":", "/", "/", "x", ".", "t", "e", "s", "t", "/", "a">>

\* "https://x.test/b"
LIT_pageB == <<"h", "t", "t", "p", "s", ":", "/", "/", "x", ".", "t", "e", "s", "t", "/", "b">>

\* "/api/documents.info"
LIT_apiDocumentsInfo == <<"/", "a", "p", "i", "/", "d", "o", "c", "u", "m", "e", "n", "t", "s", ".", "i", "n", "f", "o">>

\* "/app.js"
LIT_appJs == <<"/", "a", "p", "p", ".", "j", "s">>

LIT_documentsInfo == <<"d", "o", "c", "u", "m", "e", "n", "t", "s", ".", "i", "n", "f", "o">>

LIT_Untitled == <<"U", "n", "t", "i", "t", "l", "e", "d">>

LIT_NoUrl == <<"N", "o", " ", "U", "R", "L", " ", "a", "v", "a", "i", "l", "a", "b", "l", "e">>

LIT_NoContent == <<"N", "o", " ", "c", "o", "n", "t", "e", "n", "t", " ", "a", "v", "a", "i", "l", "a", "b", "l", "e">>

\* the separator of join("\n\n")
LIT_BlankLine == <<"\n", "\n">>

KEY_data == <<"d", "a", "t", "a">>

KEY_document == <<"d", "o", "c", "u", "m", "e", "n", "t">>

KEY_title == <<"t", "i", "t", "l", "e">>

LIT_A == <<"A">>

LIT_B == <<"B">>

\* "https://x.test"
LIT_xtest == <<"h", "t", "t", "p", "s", ":", "/", "/", "x", ".", "t", "e", "s", "t">>

\* "https://x.test/img.png"
LIT_ximg == <<"h", "t", "t", "p", "s", ":", "/", "/", "x", ".", "t", "e", "s", "t", "/", "i", "m", "g", ".", "p", "n", "g">>

-----------------------------------------------------------------------------
(* JSON values *)

\* A JavaScript value is [t, v]: t its kind, v its payload (a string's
\* characters, an array's elements, an object's [k, v] properties in
\* enumeration order; keys are not integer-like).
Undefined == [t |-> "undefined", v |-> <<>>]
Null == [t |-> "null", v |-> <<>>]
Bool(b) == [t |-> "boolean", v |-> b]
Num(n) == [t |-> "number", v |-> n]
Str(chars) == [t |-> "string", v |-> chars]
Arr(items) == [t |-> "array", v |-> items]
Obj(props) == [t |-> "object", v |-> props]
Prop(key, val) == [k |-> key, v |-> val]

\* typeof value
TypeOf(val) ==
    IF val.t \in {"null", "array", "object"} THEN "object" ELSE val.t

\* whether `value && ...` goes on
Truthy(val) ==
    CASE val.t \in {"undefined", "null"} -> FALSE
      [] val.t = "boolean" -> val.v
      [] val.t = "number" -> val.v # 0
      [] val.t = "string" -> val.v # <<>>
      [] OTHER -> TRUE

\* obj[key] of an array or object parsed from JSON: undefined when absent
Get(obj, key) ==
    IF obj.t = "object" /\ \E i \in 1..Len(obj.v) : obj.v[i].k = key
    THEN obj.v[CHOOSE i \in 1..Len(obj.v) : obj.v[i].k = key].v
    ELSE Undefined

\* Object.values(obj)
Values(obj) ==
    IF obj.t = "array" THEN obj.v
    ELSE [i \in 1..Len(obj.v) |-> obj.v[i].v]

WhiteSpace == {" ", "\t", "\n"}

\* str.trim()
RECURSIVE Trim(_)
Trim(str) ==
    IF str = <<>> THEN str
    ELSE IF Head(str) \in WhiteSpace THEN Trim(Tail(str))
    ELSE IF str[Len(str)] \in WhiteSpace THEN Trim(SubSeq(str, 1, Len(str) - 1))
    ELSE str

\* the quoted form of a string in JSON text
RECURSIVE Escaped(_)
Escaped(str) ==
    IF str = <<>> THEN <<>>
    ELSE (CASE Head(str) = "\"" -> <<"\\", "\"">>
            [] Head(str) = "\\" -> <<"\\", "\\">>
            [] Head(str) = "\n" -> <<"\\", "n">>
            [] Head(str) = "\t" -> <<"\\", "t">>
            [] OTHER -> <<Head(str)>>) \o Escaped(Tail(str))

Quoted(str) == <<"\"">> \o Escaped(str) \o <<"\"">>

\* JSON.stringify(value): an undefined array element is written as null, an
\* undefined property is left out (a top-level undefined is never stringified)
RECURSIVE Stringify(_), StringifyItems(_, _), StringifyProps(_, _)
Stringify(val) ==
    LET Defined(prop) == prop.v.t # "undefined"
    IN  CASE val.t \in {"null", "undefined"} -> LIT_null
          [] val.t = "boolean" -> IF val.v THEN LIT_true ELSE LIT_false
          [] val.t = "number" -> DecimalString(val.v)
          [] val.t = "string" -> Quoted(val.v)
          [] val.t = "array" -> <<"[">> \o StringifyItems(val.v, 1) \o <<"]">>
          [] val.t = "object" ->
                 <<"{">> \o StringifyProps(SelectSeq(val.v, Defined), 1) \o <<"}">>

StringifyItems(items, i) ==
    IF i > Len(items) THEN <<>>
    ELSE (IF i > 1 THEN <<",">> ELSE <<>>)
         \o Stringify(items[i]) \o StringifyItems(items, i + 1)

StringifyProps(props, i) ==
    IF i > Len(props) THEN <<>>
    ELSE (IF i > 1 THEN <<",">> ELSE <<>>)
         \o Quoted(props[i].k) \o <<":">> \o Stringify(props[i].v)
         \o StringifyProps(props, i + 1)

\* `${value}` of a value parsed from JSON
RECURSIVE ToStringJS(_), JoinItems(_, _)
ToStringJS(val) ==
    CASE val.t = "null" -> LIT_null
      [] val.t = "undefined" -> LIT_undefined
      [] val.t = "boolean" -> IF val.v THEN LIT_true ELSE LIT_false
      [] val.t = "number" -> DecimalString(val.v)
      [] val.t = "string" -> val.v
      [] val.t = "array" -> JoinItems(val.v, 1)
      [] val.t = "object" -> LIT_objectObject

JoinItems(items, i) ==
    IF i > Len(items) THEN <<>>
    ELSE (IF i > 1 THEN <<",">> ELSE <<>>)
         \o (IF items[i].t \in {"null", "undefined"} THEN <<>> ELSE ToStringJS(items[i]))
         \o JoinItems(items, i + 1)

-----------------------------------------------------------------------------
(* extractContentRecursively() *)

\* A fragment is the string pushed (`text`) with where it came from: the
\* field (`kind`), the value marked seen for it (`value`) and the node, as the
\* indexes leading to it from the top-level value (`path`).  The function's
\* result is the list of the `text`s.
Fragment(kind, value, path, text) ==
    [kind |-> kind, value |-> value, path |-> path, text |-> text]

Strings(fragments) == [i \in 1..Len(fragments) |-> fragments[i].text]

\* the running result of a call: the fragments pushed, the shared Set,
\* whether a TypeError was thrown, and the paths of the nodes gone into
Running(fragments, set, error, nodes) ==
    [extracted |-> fragments, seen |-> set, threw |-> error, visited |-> nodes]

\* mutant: the guard lacks `!obj`
IgnoredTypeOnly(obj) == TypeOf(obj) # "object"

\* if (!obj || typeof obj !== "object") return extracted
Ignored(obj) == ~Truthy(obj) \/ TypeOf(obj) # "object"

\* mutant: the trimmed text is not marked seen
ExtractTextNoMark(obj, acc, path) ==
    LET text == Get(obj, KEY_text)
    IN  IF Truthy(text) /\ TypeOf(text) = "string" /\ Trim(text.v) \notin acc.seen
        THEN [acc EXCEPT !.extracted =
                  Append(@, Fragment("text", Trim(text.v), path, Trim(text.v)))]
        ELSE acc

\* lines 84-91
ExtractText(obj, acc, path) ==
    LET text == Get(obj, KEY_text)
    IN  IF Truthy(text) /\ TypeOf(text) = "string" /\ Trim(text.v) \notin acc.seen
        THEN [acc EXCEPT !.extracted =
                  Append(@, Fragment("text", Trim(text.v), path, Trim(text.v))),
                         !.seen = @ \cup {Trim(text.v)}]
        ELSE acc

\* lines 94-101
ExtractHref(obj, acc, path) ==
    LET href == Get(obj, KEY_href)
        text == Get(obj, KEY_text)
        label == IF Truthy(text) THEN ToStringJS(text) ELSE LIT_Link
    IN  IF Truthy(href) /\ TypeOf(href) = "string" /\ href.v \notin acc.seen
        THEN [acc EXCEPT !.extracted =
                  Append(@, Fragment("href", href.v, path, label \o <<":", " ">> \o href.v)),
                         !.seen = @ \cup {href.v}]
        ELSE acc

\* lines 104-107
ExtractSrc(obj, acc, path) ==
    LET src == Get(obj, KEY_src)
    IN  IF Truthy(src) /\ TypeOf(src) = "string" /\ src.v \notin acc.seen
        THEN [acc EXCEPT !.extracted =
                  Append(@, Fragment("src", src.v, path, LIT_ImageColon \o src.v)),
                         !.seen = @ \cup {src.v}]
        ELSE acc

\* mutant: the image is pushed before the text and the link
OwnFragmentsSrcFirst(obj, acc, path) ==
    ExtractHref(obj, ExtractText(obj, ExtractSrc(obj, acc, path), path), path)

\* lines 83-107: the node's own fragments
OwnFragments(obj, acc, path) ==
    ExtractSrc(obj, ExtractHref(obj, ExtractText(obj, acc, path), path), path)

\* extractContentRecursively(obj, seen); `path` locates obj for the fragments.
\* ExtractEach is a forEach over `items` from index i on, pushing each call's
\* result; a throw ends it.
RECURSIVE Extract(_, _, _), ExtractEach(_, _, _, _)
Extract(obj, set, path) ==
    IF Ignored(obj) THEN Running(<<>>, set, FALSE, {})
    ELSE LET objKey == Stringify(obj)
         IN  IF objKey \in set THEN Running(<<>>, set, FALSE, {})
             ELSE IF obj.t = "null"
                  THEN Running(<<>>, set \cup {objKey}, TRUE, {path})   \* null.text
             ELSE LET own == OwnFragments(obj,
                                 Running(<<>>, set \cup {objKey}, FALSE, {path}), path)
                      elements == IF obj.t = "array"
                                  THEN ExtractEach(obj.v, 1, own, path) ELSE own
                  IN  IF elements.threw THEN elements
                      ELSE ExtractEach(Values(obj), 1, elements, path)

ExtractEach(items, i, acc, path) ==
    IF i > Len(items) THEN acc
    ELSE LET r == Extract(items[i], acc.seen, path \o <<i>>)
         IN  IF r.threw
             THEN Running(acc.extracted, r.seen, TRUE, acc.visited \cup r.visited)
             ELSE ExtractEach(items, i + 1,
                              Running(acc.extracted \o r.extracted, r.seen, FALSE,
                                      acc.visited \cup r.visited), path)

\* mutant: the Set of the previous top-level call is used again
NewSeenShared(previous) == previous

\* the default `seen = new Set<string>()` of a top-level call (line 68),
\* whatever Set the previous call left
NewSeen(previous) == {}

-----------------------------------------------------------------------------
(* extractContentRecursively(): inputs *)

TextNode(text) == Obj(<<Prop(KEY_text, Str(text))>>)

\* the object of the spec's scenario
ScenarioDoc ==
    Obj(<<Prop(KEY_text, Str(LIT_Hi)), Prop(KEY_href, Str(LIT_xtest)),
          Prop(KEY_src, Str(LIT_ximg))>>)

Scalars == { Undefined, Null, Bool(TRUE), Num(7), Str(LIT_Hi), Str(<<>>) }

Leaves ==
    Scalars \cup
    { Obj(<<>>), Arr(<<>>),
      TextNode(LIT_Hi), TextNode(LIT_HiPadded), TextNode(<<" ">>), TextNode(<<>>),
      TextNode(LIT_u), TextNode(LIT_HiNodeJson),
      Obj(<<Prop(KEY_text, Num(7)), Prop(KEY_href, Str(LIT_v))>>),
      Obj(<<Prop(KEY_href, Str(LIT_u))>>),
      Obj(<<Prop(KEY_src, Str(LIT_u))>>),
      Obj(<<Prop(KEY_src, Str(LIT_i))>>),
      Obj(<<Prop(KEY_text, Str(LIT_Hi)), Prop(KEY_href, Str(LIT_u))>>),
      Obj(<<Prop(KEY_href, Str(LIT_u)), Prop(KEY_text, Str(LIT_Hi))>>),
      Obj(<<Prop(KEY_id, Num(1)), Prop(KEY_text, Str(LIT_Hi))>>),
      Obj(<<Prop(KEY_text, Str(LIT_Hi)), Prop(KEY_href, Str(LIT_u)),
            Prop(KEY_src, Str(LIT_i))>>),
      ScenarioDoc }

\* the containers put around documents: arrays of one and of two elements,
\* and objects with own fields before and after the nested value
Wrapped(inner) ==
    { Arr(<<x>>) : x \in inner }
    \cup { Arr(<<x, y>>) : x \in inner, y \in Leaves }
    \cup { Obj(<<Prop(KEY_text, Str(LIT_P)), Prop(KEY_src, Str(LIT_i)),
                 Prop(KEY_child, x)>>) : x \in inner }
    \cup { Obj(<<Prop(KEY_child, x), Prop(KEY_href, Str(LIT_u))>>) : x \in inner }

RECURSIVE DocumentsOfDepth(_)
DocumentsOfDepth(d) ==
    IF d = 0 THEN Leaves ELSE Leaves \cup Wrapped(DocumentsOfDepth(d - 1))

\* an object whose own text is the JSON text of the second of the two
\* elements of its child array
EmbeddedJsonDoc ==
    Obj(<<Prop(KEY_text, Str(LIT_IdHiNodeJson)),
          Prop(KEY_child,
               Arr(<<TextNode(LIT_Hi),
                     Obj(<<Prop(KEY_id, Num(1)), Prop(KEY_text, Str(LIT_Hi))>>)>>))>>)

Documents == DocumentsOfDepth(MaxDepth) \cup {EmbeddedJsonDoc}

-----------------------------------------------------------------------------
(* crawl(): the response listener of a page (lines 125-160) *)

\* str.includes(sub)
Includes(str, sub) ==
    \E i \in 1..(Len(str) - Len(sub) + 1) : SubSeq(str, i, i + Len(sub) - 1) = sub

\* strings.join(sep)
RECURSIVE Join(_, _)
Join(strings, sep) ==
    IF strings = <<>> THEN <<>>
    ELSE IF Len(strings) = 1 THEN strings[1]
    ELSE strings[1] \o sep \o Join(Tail(strings), sep)

\* the body of a response for which response.json() rejects
ParseFailure == [t |-> "unparsable", v |-> <<>>]

\* how the listener's try block ends: the record it hands to pushData (if
\* any), whether it threw, and the Set its extraction left
Outcome(record, error, set) == [record |-> record, threw |-> error, seen |-> set]

\* !jsonResponse.data || !jsonResponse.data.document (line 135)
MissingDocument(jsonResponse) ==
    \/ ~Truthy(Get(jsonResponse, KEY_data))
    \/ ~Truthy(Get(Get(jsonResponse, KEY_data), KEY_document))

\* the argument of pushData (lines 148-152)
PageRecord(documentData, loadedUrl, extractedText) ==
    [title |-> IF Truthy(Get(documentData, KEY_title))
               THEN Get(documentData, KEY_title) ELSE Str(LIT_Untitled),
     url |-> IF Truthy(loadedUrl) THEN loadedUrl ELSE Str(LIT_NoUrl),
     text |-> IF extractedText # <<>> THEN extractedText ELSE LIT_NoContent]

\* mutant: the payload is not validated and is read with optional chaining
tryBlockUnvalidated(body, loadedUrl, previous) ==
    IF body = ParseFailure THEN Outcome(<<>>, TRUE, previous)
    ELSE LET documentData == Get(Get(body, KEY_data), KEY_document)
             r == Extract(documentData, NewSeen(previous), <<>>)
         IN  Outcome(<<PageRecord(documentData, loadedUrl,
                                  Join(Strings(r.extracted), LIT_BlankLine))>>,
                     FALSE, r.seen)

\* the try block from the moment response.json() settles up to the call of
\* pushData (lines 128-152); `previous` is the Set the last extraction left
tryBlock(body, loadedUrl, previous) ==
    IF body = ParseFailure THEN Outcome(<<>>, TRUE, previous)       \* json() rejects
    ELSE IF body.t = "null" THEN Outcome(<<>>, TRUE, previous)      \* null.data
    ELSE IF MissingDocument(body) THEN Outcome(<<>>, FALSE, previous)
    ELSE LET documentData == Get(Get(body, KEY_data), KEY_document)
             r == Extract(documentData, NewSeen(previous), <<>>)
         IN  IF r.threw THEN Outcome(<<>>, TRUE, r.seen)
             ELSE Outcome(<<PageRecord(documentData, loadedUrl,
                                       Join(Strings(r.extracted), LIT_BlankLine))>>,
                          FALSE, r.seen)

\* mutant: the error is thrown on
catchBlockRethrows(outcome) == outcome

\* catch (error) { console.error(...) } (lines 153-158)
catchBlock(outcome) == [outcome EXCEPT !.threw = FALSE]

-----------------------------------------------------------------------------
(* crawl(): inputs *)

\* the loadedUrl of the pages in the request queue
PageUrls == {LIT_pageA, LIT_pageB}

\* { title: "A", text: "Hi" }
DocA == Obj(<<Prop(KEY_title, Str(LIT_A)), Prop(KEY_text, Str(LIT_Hi))>>)

\* { title: "B", child: [{ text: "Hi" }, { text: "P" }] }
DocB ==
    Obj(<<Prop(KEY_title, Str(LIT_B)),
          Prop(KEY_child, Arr(<<TextNode(LIT_Hi), TextNode(LIT_P)>>))>>)

\* { data: { document: documentData } }
DocumentsInfo(documentData) ==
    Obj(<<Prop(KEY_data, Obj(<<Prop(KEY_document, documentData)>>))>>)

\* null, {} and { data: {} }: JSON without data.document
BodiesWithoutDocument == {Null, Obj(<<>>), Obj(<<Prop(KEY_data, Obj(<<>>))>>)}

\* the responses a page's listener can be called with
Responses ==
    {[url |-> LIT_appJs, body |-> ParseFailure]}
        \cup {[url |-> LIT_apiDocumentsInfo, body |-> b] :
                 b \in ({ParseFailure, DocumentsInfo(DocA), DocumentsInfo(DocB)}
                            \cup BodiesWithoutDocument)}

\* how many responses a crawl delivers in all
MaxResponses == 2

-----------------------------------------------------------------------------
(* write(): the state machine *)

\* the state of write() when its loop starts (lines 235-269)
WriteInit ==
    /\ config \in Configs
    /\ jsonFiles \in FileLists
    /\ fileIdx = 1
    /\ currentResults = <<>>
    /\ currentSize = 0
    /\ fileCounter = 1
    /\ estimatedTokens = 0
    /\ nextFileNameString = <<>>
    /\ written = <<>>
    /\ pc = "loop"
    /\ returned = <<>>

\* no extraction is under way
ExtractIdle ==
    /\ doc = Undefined
    /\ extracted = <<>>
    /\ seen = {}
    /\ threw = FALSE
    /\ visited = {}
    /\ epc = "idle"

\* write() is not running
WriteIdle ==
    /\ config = [maxFileSize |-> <<>>, maxTokens |-> <<>>, outputFileName |-> <<>>]
    /\ jsonFiles = <<>>
    /\ fileIdx = 1
    /\ currentResults = <<>>
    /\ currentSize = 0
    /\ fileCounter = 1
    /\ estimatedTokens = 0
    /\ nextFileNameString = <<>>
    /\ written = <<>>
    /\ pc = "idle"
    /\ returned = <<>>

\* a top-level call extractContentRecursively(documentData) is about to run
ExtractInit ==
    /\ doc \in Documents
    /\ extracted = <<>>
    /\ seen = {}
    /\ threw = FALSE
    /\ visited = {}
    /\ epc = "call"

\* extractContentRecursively(documentData): `seen` defaults to a new Set (line 68)
CallExtract ==
    /\ epc = "call"
    /\ LET r == Extract(doc, NewSeen(seen), <<>>)
       IN  /\ extracted' = r.extracted
           /\ seen' = r.seen
           /\ threw' = r.threw
           /\ visited' = r.visited
    /\ epc' = "done"
    /\ UNCHANGED <<doc, wvars, cvars>>

\* one iteration of `for (const file of jsonFiles)` (lines 302-306)
ProcessFile ==
    /\ pc = "loop"
    /\ fileIdx <= Len(jsonFiles)
    /\ SetWriterState(addContentOrSplit(config, WriterState, jsonFiles[fileIdx]))
    /\ fileIdx' = fileIdx + 1
    /\ UNCHANGED <<config, jsonFiles, pc, returned, evars, cvars>>

\* mutant: write() returns without flushing the remaining batch
FinishWriteNoFlush ==
    /\ pc = "loop"
    /\ fileIdx > Len(jsonFiles)
    /\ returned' = nextFileNameString
    /\ pc' = "done"
    /\ UNCHANGED <<config, jsonFiles, fileIdx, currentResults, currentSize,
                   fileCounter, estimatedTokens, nextFileNameString, written,
                   evars, cvars>>

\* the end of write(): flush what remains and return (lines 308-313)
FinishWrite ==
    /\ pc = "loop"
    /\ fileIdx > Len(jsonFiles)
    /\ LET s == IF Len(currentResults) > 0
                THEN writeBatchToFile(config, WriterState) ELSE WriterState
       IN  /\ SetWriterState(s)
           /\ returned' = s.nextFileNameString
    /\ pc' = "done"
    /\ UNCHANGED <<config, jsonFiles, fileIdx, evars, cvars>>

\* crawling is disabled (NO_CRAWL, line 54): nothing is visited
CrawlIdle ==
    /\ pages = [p \in PageUrls |-> "queued"]
    /\ pageCounter = 0
    /\ handlers = <<>>
    /\ dataset = <<>>
    /\ crawlDone = TRUE
    /\ crashed = FALSE

\* write() over a set of intermediate files
Init == WriteInit /\ ExtractIdle /\ CrawlIdle

Next == ProcessFile \/ FinishWrite

Spec == Init /\ [][Next]_vars

\* one top-level extraction of a document
InitExtract == ExtractInit /\ WriteIdle /\ CrawlIdle

NextExtract == CallExtract

SpecExtract == InitExtract /\ [][NextExtract]_vars

-----------------------------------------------------------------------------
(* crawl(): the state machine *)

\* crawler.run() starts with the requests queued (lines 57-230)
CrawlInit ==
    /\ pages = [p \in PageUrls |-> "queued"]
    /\ pageCounter = 0
    /\ handlers = <<>>
    /\ dataset = <<>>
    /\ crawlDone = FALSE
    /\ crashed = FALSE

\* requestHandler of page p up to `await page.goto` (lines 60-163): count
\* the page and register the listener
StartPage(p) ==
    /\ ~crawlDone /\ ~crashed
    /\ pages[p] = "queued"
    /\ pages' = [pages EXCEPT ![p] = "open"]
    /\ pageCounter' = pageCounter + 1
    /\ UNCHANGED <<handlers, dataset, crawlDone, crashed, wvars, evars>>

\* the page emits "response": the listener runs up to `await response.json()`,
\* or returns at once when the URL does not match (lines 125-128)
Response(p, response) ==
    /\ ~crashed
    /\ pages[p] = "open"
    /\ Len(handlers) < MaxResponses
    /\ handlers' = Append(handlers,
           [page |-> p, response |-> response, record |-> <<>>,
            state |-> IF Includes(response.url, LIT_documentsInfo)
                      THEN "json" ELSE "done"])
    /\ UNCHANGED <<pages, pageCounter, dataset, crawlDone, crashed, wvars, evars>>

\* response.json() of listener h settles: the listener runs on to
\* `await pushData(...)` or to its end (lines 128-158)
HandlerJson(h) ==
    /\ ~crashed
    /\ handlers[h].state = "json"
    /\ LET o == catchBlock(tryBlock(handlers[h].response.body,
                                    Str(handlers[h].page), seen))
       IN  /\ handlers' = [handlers EXCEPT
                  ![h].record = o.record,
                  ![h].state = IF o.record # <<>> THEN "push" ELSE "done"]
           /\ seen' = o.seen
           /\ crashed' = o.threw
    /\ UNCHANGED <<pages, pageCounter, dataset, crawlDone, wvars,
                   doc, extracted, threw, visited, epc>>

\* mutant: the listener stays where it can push again
HandlerPushAgain(h) ==
    /\ ~crashed
    /\ handlers[h].state = "push"
    /\ Len(dataset) <= MaxResponses
    /\ dataset' = Append(dataset, [record |-> handlers[h].record[1], by |-> h])
    /\ UNCHANGED <<handlers, pages, pageCounter, crawlDone, crashed, wvars, evars>>

\* pushData() of listener h persists the record and the listener ends
\* (lines 148-152)
HandlerPush(h) ==
    /\ ~crashed
    /\ handlers[h].state = "push"
    /\ dataset' = Append(dataset, [record |-> handlers[h].record[1], by |-> h])
    /\ handlers' = [handlers EXCEPT ![h].state = "done"]
    /\ UNCHANGED <<pages, pageCounter, crawlDone, crashed, wvars, evars>>

\* page.goto() and enqueueLinks() resolve and requestHandler returns
\* (lines 163-174); the listeners' promises are not awaited
FinishPage(p) ==
    /\ ~crashed
    /\ pages[p] = "open"
    /\ pages' = [pages EXCEPT ![p] = "closed"]
    /\ UNCHANGED <<pageCounter, handlers, dataset, crawlDone, crashed, wvars, evars>>

\* crawler.run() resolves: no requestHandler is running (lines 226-229)
CrawlReturns ==
    /\ ~crawlDone /\ ~crashed
    /\ \A p \in PageUrls : pages[p] # "open"
    /\ crawlDone' = TRUE
    /\ UNCHANGED <<pages, pageCounter, handlers, dataset, crashed, wvars, evars>>

\* one crawl
InitCrawl == CrawlInit /\ WriteIdle /\ ExtractIdle

NextCrawl ==
    \/ \E p \in PageUrls : StartPage(p)
    \/ \E p \in PageUrls : \E response \in Responses : Response(p, response)
    \/ \E h \in 1..Len(handlers) : HandlerJson(h)
    \/ \E h \in 1..Len(handlers) : HandlerPush(h)
    \/ \E p \in PageUrls : FinishPage(p)
    \/ CrawlReturns

SpecCrawl == InitCrawl /\ [][NextCrawl]_vars

-----------------------------------------------------------------------------
(* write(): claims *)

Done == pc = "done"

RECURSIVE SumBytes(_)
SumBytes(records) ==
    IF records = <<>> THEN 0
    ELSE getStringByteSize(Head(records)) + SumBytes(Tail(records))

\* the records of the files written so far, in the order written
RECURSIVE Concatenated(_)
Concatenated(files) ==
    IF files = <<>> THEN <<>>
    ELSE Head(files).content \o Concatenated(Tail(files))

FileLengths == [k \in 1..Len(written) |-> Len(written[k].content)]

\* 5 records of 100KB each, a byte ceiling of 250KB, no token ceiling
C1_Scenario ==
    /\ Len(jsonFiles) = 5
    /\ \A i \in 1..5 : getStringByteSize(jsonFiles[i]) = 100 * 1024
    /\ maxBytes(config) = 250 * 1024
    /\ config.maxTokens = <<>>

\* C1 (as claimed): for 5 records of 100KB each and a byte ceiling of 250KB,
\* write() produces exactly 3 files holding 2, 2 and 1 records.
C1_ThreeFiles == (Done /\ C1_Scenario) => FileLengths = <<2, 2, 1>>

\* C1 (amended): for 5 records of 100KB each and a byte ceiling of 250KB,
\* write() produces exactly 2 files: the first holds the first 3 records (the
\* ceiling is checked after the third is appended), the second the last 2.
C1_TwoFiles ==
    (Done /\ C1_Scenario) =>
        /\ Len(written) = 2
        /\ written[1].content = SubSeq(jsonFiles, 1, 3)
        /\ written[2].content = SubSeq(jsonFiles, 4, 5)

C1_Witness == Done /\ C1_Scenario /\ FileLengths = <<3, 2>>

\* C2 (as claimed): after write() returns every input record, also one whose
\* token count alone exceeds the ceiling, is in some written file: the files
\* in order hold exactly the input records.
C2_NoRecordDropped == Done => Concatenated(written) = jsonFiles

\* C3: the summed byte size of the records of any written file exceeds the
\* byte ceiling by less than the size of the record appended last.
C3_FileSizeBound ==
    \A k \in 1..Len(written) :
        LET content == written[k].content
        IN  content # <<>> =>
                SumBytes(content) - getStringByteSize(content[Len(content)])
                    <= maxBytes(config)

C3_Witness ==
    /\ config.maxFileSize # <<>>
    /\ \E k \in 1..Len(written) :
           /\ Len(written[k].content) >= 2
           /\ SumBytes(written[k].content) > maxBytes(config)

\* the step that processes a record whose token count is numeric, under a
\* configured token ceiling
C4_NumericStep ==
    /\ pc = "loop"
    /\ fileIdx <= Len(jsonFiles)
    /\ fileIdx' = fileIdx + 1
    /\ config.maxTokens # <<>>
    /\ jsonFiles[fileIdx].tokens <= config.maxTokens[1]

C4_Effect ==
    LET data == jsonFiles[fileIdx]
        c == data.tokens
        T == config.maxTokens[1]
        n == Len(written)
        \* what the byte check may still do with the batch `batch`
        ThenBytes(files, batch) ==
            \/ written' = files /\ currentResults' = batch
            \/ /\ Len(written') = Len(files) + 1
               /\ SubSeq(written', 1, Len(files)) = files
               /\ written'[Len(written')].content = batch
               /\ currentResults' = <<>>
    IN  IF estimatedTokens + c > T
        THEN /\ estimatedTokens' = c \div 2
             /\ IF currentResults # <<>>
                THEN /\ Len(written') > n
                     /\ written'[n + 1].content = currentResults
                     /\ ThenBytes(SubSeq(written', 1, n + 1), <<data>>)
                ELSE ThenBytes(written, <<data>>)
        ELSE /\ estimatedTokens' = estimatedTokens + c
             /\ ThenBytes(written, Append(currentResults, data))

\* C4: with a token ceiling T, a record of numeric count c with estimate + c > T
\* flushes the batch first (only if non-empty), sets the estimate to floor(c/2)
\* and goes into the new batch; otherwise it is appended and the estimate
\* grows by c, with no token-triggered flush.
C4_TokenSplit == [][C4_NumericStep => C4_Effect]_vars

C4_Witness ==
    /\ pc = "loop"
    /\ config.maxTokens # <<>>
    /\ config.maxFileSize = <<>>
    /\ fileIdx > 2
    /\ Len(written) >= 1
    /\ currentResults = <<jsonFiles[fileIdx - 1]>>
    /\ estimatedTokens = jsonFiles[fileIdx - 1].tokens \div 2

\* the input records addContentOrSplit appended (token count numeric)
Appended ==
    LET Numeric(data) == isWithinTokenLimit(data, TokenLimit(config)) # <<>>
    IN  SelectSeq(jsonFiles, Numeric)

\* C5: when write() returns the batch is empty, every appended record is in a
\* written file, and the value returned is the name of the last file written,
\* the empty string when none was.
C5_FinalFlush ==
    Done =>
        /\ currentResults = <<>>
        /\ Concatenated(written) = Appended
        /\ returned = IF written = <<>> THEN <<>> ELSE written[Len(written)].name

C5_Witness ==
    /\ Done
    /\ Len(written) >= 2
    /\ config.maxFileSize # <<>>
    /\ SumBytes(written[Len(written)].content) <= maxBytes(config)
    /\ returned = written[Len(written)].name

\* the stem of the configured output file name, read off the inputs
C6_Stem ==
    IF config.outputFileName = <<"o", ".", "j", "s", "o", "n">>
    THEN <<"o">> ELSE config.outputFileName

\* C6: the k-th flush writes <stem>-k.json, k = 1, 2, ...: no name is written
\* twice and the numbers of the written files are 1..n.
C6_SequentialNames ==
    /\ fileCounter = Len(written) + 1
    /\ \A k \in 1..Len(written) :
           written[k].name =
               C6_Stem \o <<"-">> \o DecimalString(k) \o <<".", "j", "s", "o", "n">>
    /\ \A j, k \in 1..Len(written) : written[j].name = written[k].name => j = k

C6_Witness == Len(written) >= 3 /\ written[3].name = <<"o", "-", "3", ".", "j", "s", "o", "n">>

\* C7: with neither maxFileSize nor maxTokens configured no flush happens
\* while records are processed, and a non-empty input gives exactly one file
\* holding all input records.
C7_Unbounded ==
    (config.maxFileSize = <<>> /\ config.maxTokens = <<>>) =>
        /\ pc = "loop" => written = <<>>
        /\ (Done /\ jsonFiles # <<>>) =>
               Len(written) = 1 /\ written[1].content = jsonFiles

C7_Witness ==
    /\ config.maxFileSize = <<>> /\ config.maxTokens = <<>>
    /\ Done
    /\ Len(jsonFiles) >= 3
    /\ Len(written) = 1

-----------------------------------------------------------------------------
(* extractContentRecursively(): claims *)

Extracted == epc = "done"

C9_OneFragmentPerValue ==
    Extracted =>
        \A i, j \in 1..Len(extracted) :
            (extracted[i].kind = extracted[j].kind
             /\ extracted[i].value = extracted[j].value) => i = j

\* two array elements with the same trimmed text, each reached by the element
\* recursion and by the property-value recursion
C9_Witness ==
    /\ Extracted
    /\ doc = Arr(<<TextNode(LIT_Hi), TextNode(LIT_HiPadded)>>)
    /\ Strings(extracted) = <<LIT_Hi>>

\* Hi: https://x.test
C10_HiLink == <<"H", "i", ":", " ", "h", "t", "t", "p", "s", ":", "/", "/", "x", ".", "t", "e", "s", "t">>

\* Image: https://x.test/img.png
C10_Image ==
    <<"I", "m", "a", "g", "e", ":", " ", "h", "t", "t", "p", "s", ":", "/", "/", "x", ".", "t", "e", "s", "t", "/", "i", "m", "g", ".", "p", "n", "g">>

C10_Rank(kind) == CASE kind = "text" -> 1 [] kind = "href" -> 2 [] kind = "src" -> 3

\* node p comes before node q when the tree is walked parent first, children
\* in enumeration order
C10_Before(p, q) ==
    \/ Len(p) < Len(q) /\ SubSeq(q, 1, Len(p)) = p
    \/ \E k \in 1..Len(p) :
           /\ k <= Len(q)
           /\ SubSeq(p, 1, k - 1) = SubSeq(q, 1, k - 1)
           /\ p[k] < q[k]

C10_EndsWith(str, suffix) ==
    /\ Len(str) >= Len(suffix)
    /\ SubSeq(str, Len(str) - Len(suffix) + 1, Len(str)) = suffix

\* C10: a node's fragments come in the order text, "<label>: <href>",
\* "Image: <src>", before those of its descendants, which follow in
\* enumeration order; {text: "Hi", href: "https://x.test",
\* src: "https://x.test/img.png"} gives
\* ["Hi", "Hi: https://x.test", "Image: https://x.test/img.png"].
C10_FragmentOrder ==
    Extracted =>
        /\ \A i, j \in 1..Len(extracted) :
               i < j =>
                   IF extracted[i].path = extracted[j].path
                   THEN C10_Rank(extracted[i].kind) < C10_Rank(extracted[j].kind)
                   ELSE C10_Before(extracted[i].path, extracted[j].path)
        /\ \A i \in 1..Len(extracted) :
               LET f == extracted[i]
               IN  CASE f.kind = "text" -> f.text = f.value
                     [] f.kind = "href" -> C10_EndsWith(f.text, <<":", " ">> \o f.value)
                     [] f.kind = "src" ->
                            f.text = <<"I", "m", "a", "g", "e", ":", " ">> \o f.value
        /\ doc = ScenarioDoc =>
               Strings(extracted) = <<LIT_Hi, C10_HiLink, C10_Image>>

C10_Witness ==
    /\ Extracted
    /\ doc = ScenarioDoc
    /\ Len(extracted) = 3

\* the two elements of the array whose elements are the sibling sub-trees: the
\* document itself or its `child` property
C11_Pair ==
    LET child == Get(doc, KEY_child)
    IN  IF doc.t = "array" /\ Len(doc.v) = 2
        THEN <<[node |-> doc.v[1], path |-> <<1>>], [node |-> doc.v[2], path |-> <<2>>]>>
        ELSE IF doc.t = "object" /\ child.t = "array" /\ Len(child.v) = 2
        THEN LET c == CHOOSE i \in 1..Len(doc.v) : doc.v[i].k = KEY_child
             IN  <<[node |-> child.v[1], path |-> <<c, 1>>],
                   [node |-> child.v[2], path |-> <<c, 2>>]>>
        ELSE <<>>

\* an object none of whose properties is an object or array
C11_Flat(node) ==
    /\ node.t = "object"
    /\ \A i \in 1..Len(node.v) : node.v[i].v.t \notin {"array", "object"}

\* `more` is `less` with one property added that is not text, href or src
C11_OneFieldMore(less, more) ==
    \E i \in 1..Len(more.v) :
        /\ more.v[i].k \notin {KEY_text, KEY_href, KEY_src}
        /\ more.v[i].v.t # "undefined"
        /\ less.v = SubSeq(more.v, 1, i - 1) \o SubSeq(more.v, i + 1, Len(more.v))

\* C11 (as claimed): of two sibling sub-trees with the same serialization the
\* second is skipped entirely (not gone into, no fragment); of two that differ
\* by one unrelated field both are gone into.
C11_SiblingSkip ==
    (Extracted /\ C11_Pair # <<>>
     /\ C11_Flat(C11_Pair[1].node) /\ C11_Flat(C11_Pair[2].node)) =>
        LET first == C11_Pair[1]
            second == C11_Pair[2]
        IN  /\ Stringify(first.node) = Stringify(second.node) =>
                   /\ second.path \notin visited
                   /\ \A i \in 1..Len(extracted) : extracted[i].path # second.path
            /\ (C11_OneFieldMore(first.node, second.node)
                \/ C11_OneFieldMore(second.node, first.node)) =>
                   first.path \in visited /\ second.path \in visited

\* C16 (as claimed): a text fragment is pushed only for a text that is
\* non-empty after trimming, so no fragment is the empty string.
C16_NoEmptyFragment ==
    Extracted => \A i \in 1..Len(extracted) : extracted[i].text # <<>>

-----------------------------------------------------------------------------
(* write(): further claims *)

\* the step that processes the record jsonFiles[fileIdx]
RecordStep ==
    /\ pc = "loop"
    /\ fileIdx <= Len(jsonFiles)
    /\ fileIdx' = fileIdx + 1

\* whether the record about to be processed has a numeric token count
RecordNumeric == jsonFiles[fileIdx].tokens <= TokenLimit(config)

\* whether the record about to be processed overflows the token ceiling
RecordOverflowsTokens ==
    /\ config.maxTokens # <<>>
    /\ RecordNumeric
    /\ estimatedTokens + jsonFiles[fileIdx].tokens > config.maxTokens[1]

\* whether processing the record flushes the batch on tokens, and on bytes
RecordTokenFlush == RecordOverflowsTokens /\ currentResults # <<>>

RecordByteFlush ==
    (IF RecordTokenFlush THEN 0 ELSE currentSize)
        + getStringByteSize(jsonFiles[fileIdx]) > maxBytes(config)

\* C17: a byte-triggered flush empties the batch, zeroes the byte counter and
\* increments the file counter but leaves the token estimate as the token rule
\* set it; the estimate only ever goes down by the halving step of a token
\* overflow, and no other step changes it.
C17_ByteFlushKeepsEstimate ==
    [][/\ RecordStep =>
              /\ estimatedTokens' =
                     IF ~RecordNumeric THEN estimatedTokens
                     ELSE IF RecordOverflowsTokens
                          THEN jsonFiles[fileIdx].tokens \div 2
                          ELSE estimatedTokens + jsonFiles[fileIdx].tokens
              /\ RecordByteFlush =>
                     /\ currentResults' = <<>>
                     /\ currentSize' = 0
                     /\ fileCounter' =
                            fileCounter + 1 + (IF RecordTokenFlush THEN 1 ELSE 0)
       /\ ~RecordStep => estimatedTokens' = estimatedTokens
       /\ estimatedTokens' < estimatedTokens =>
              RecordStep /\ RecordOverflowsTokens]_vars

\* after a byte-triggered flush the estimate still counts the flushed records
C17_Witness ==
    /\ pc = "loop"
    /\ config.maxTokens # <<>>
    /\ config.maxFileSize # <<>>
    /\ Len(written) = 1
    /\ written[1].content = SubSeq(jsonFiles, 1, fileIdx - 1)
    /\ SumBytes(written[1].content) > maxBytes(config)
    /\ currentResults = <<>>
    /\ currentSize = 0
    /\ estimatedTokens > jsonFiles[fileIdx - 1].tokens

\* the records appended so far: those processed whose token count is numeric
AppendedSoFar ==
    LET Numeric(data) == isWithinTokenLimit(data, TokenLimit(config)) # <<>>
    IN  SelectSeq(SubSeq(jsonFiles, 1, fileIdx - 1), Numeric)

\* C18: at every step the written files in order followed by the current
\* batch are the records appended so far in input order; a step never changes
\* a file already written, and each file it writes is the batch at flush time.
C18_OrderKept ==
    /\ [](Concatenated(written) \o currentResults = AppendedSoFar)
    /\ [][/\ Len(written') >= Len(written)
          /\ SubSeq(written', 1, Len(written)) = written
          /\ Len(written') > Len(written) =>
                 LET new == SubSeq(written', Len(written) + 1, Len(written'))
                     contents == [k \in 1..Len(new) |-> new[k].content]
                 IN  IF RecordStep
                     THEN LET data == jsonFiles[fileIdx]
                          IN  \/ contents = <<currentResults>>
                              \/ contents = <<Append(currentResults, data)>>
                              \/ contents = <<currentResults, <<data>>>>
                     ELSE contents = <<currentResults>>]_vars

C18_Witness ==
    /\ pc = "loop"
    /\ Len(written) >= 2
    /\ Len(written[1].content) >= 2
    /\ currentResults # <<>>
    /\ Len(AppendedSoFar) < fileIdx - 1

\* C20 (as claimed): every file written holds at least one record.
C20_NoEmptyFile == \A k \in 1..Len(written) : written[k].content # <<>>

-----------------------------------------------------------------------------
(* crawl(): claims *)

\* how many records listener h has persisted
RecordsBy(h) == Cardinality({i \in 1..Len(dataset) : dataset[i].by = h})

\* whether the response's URL is that of the API endpoint
FromEndpoint(response) == Includes(response.url, LIT_documentsInfo)

\* the data.document of a parsed body
DocumentOf(body) == Get(Get(body, KEY_data), KEY_document)

\* whether the response is from the endpoint and carries a data.document
Qualifies(response) ==
    /\ FromEndpoint(response)
    /\ response.body # ParseFailure
    /\ DocumentOf(response.body).t \notin {"undefined", "null"}

\* listener h persisted nothing, let no error out, and its page's visit and
\* the crawl can go on
C_Harmless(h) ==
    /\ RecordsBy(h) = 0
    /\ handlers[h].state \in {"json", "done"}
    /\ handlers[h].record = <<>>
    /\ ~crashed
    /\ pages[handlers[h].page] = "open" => ENABLED FinishPage(handlers[h].page)
    /\ (~crawlDone /\ \A p \in PageUrls : pages[p] # "open") => ENABLED CrawlReturns

\* C12: a response from the endpoint that parses as JSON but has no
\* data.document persists no record, lets no error escape the listener, and
\* leaves the page visit and the crawl able to continue.
C12_MissingDocumentSkipped ==
    \A h \in 1..Len(handlers) :
        (/\ FromEndpoint(handlers[h].response)
         /\ handlers[h].response.body \in BodiesWithoutDocument) => C_Harmless(h)

\* the crawl ended and a later response was recorded after a listener on
\* another page had skipped a body without data.document
C12_Witness ==
    /\ Len(handlers) = 2
    /\ FromEndpoint(handlers[1].response)
    /\ handlers[1].response.body \in BodiesWithoutDocument
    /\ handlers[1].state = "done"
    /\ handlers[2].page # handlers[1].page
    /\ RecordsBy(2) = 1
    /\ crawlDone

\* C13: when response.json() of a response from the endpoint rejects, the
\* listener catches it: no record is persisted, no error escapes, and the
\* page visit and the crawl are not aborted.
C13_ParseFailureCaught ==
    \A h \in 1..Len(handlers) :
        (/\ FromEndpoint(handlers[h].response)
         /\ handlers[h].response.body = ParseFailure) => C_Harmless(h)

\* a page whose first response failed to parse still had its second recorded
C13_Witness ==
    /\ Len(handlers) = 2
    /\ FromEndpoint(handlers[1].response)
    /\ handlers[1].response.body = ParseFailure
    /\ handlers[1].state = "done"
    /\ handlers[2].page = handlers[1].page
    /\ RecordsBy(2) = 1
    /\ pages[handlers[1].page] = "closed"

\* C14: a response persists at most one record, none unless it qualifies,
\* exactly one once the listener of a qualifying response has ended, and the
\* record carries the URL of the page that registered the listener.
C14_OneRecordPerResponse ==
    \A h \in 1..Len(handlers) :
        /\ RecordsBy(h) <= 1
        /\ ~Qualifies(handlers[h].response) => RecordsBy(h) = 0
        /\ (Qualifies(handlers[h].response) /\ handlers[h].state = "done") =>
               RecordsBy(h) = 1
        /\ \A i \in 1..Len(dataset) :
               dataset[i].by = h => dataset[i].record.url = Str(handlers[h].page)

\* two qualifying responses of one page gave two records while the other
\* page was being visited
C14_Witness ==
    /\ Len(handlers) = 2
    /\ handlers[1].page = handlers[2].page
    /\ Qualifies(handlers[1].response) /\ Qualifies(handlers[2].response)
    /\ Len(dataset) = 2
    /\ dataset[1].by # dataset[2].by
    /\ \E p \in PageUrls : p # handlers[1].page /\ pages[p] = "open"

\* C15 (as claimed): once crawler.run() has resolved every listener has
\* ended, and no record is persisted from then on.
C15_NothingAfterCrawl ==
    /\ [](crawlDone => \A h \in 1..Len(handlers) : handlers[h].state = "done")
    /\ [][crawlDone => dataset' = dataset]_vars

\* the text a record must carry for the document, whatever else was extracted
C19_Text(documentData) ==
    CASE documentData = DocA -> LIT_Hi
      [] documentData = DocB -> LIT_Hi \o LIT_BlankLine \o LIT_P

\* C19: every top-level extraction starts from an empty Set: the text of a
\* record depends on its own document only, not on what other responses or
\* pages had extracted before.
C19_FreshSeenSet ==
    \A h \in 1..Len(handlers) :
        handlers[h].record # <<>> =>
            handlers[h].record[1].text = C19_Text(DocumentOf(handlers[h].response.body))

\* two pages open at once, each with a document holding the text "Hi"
C19_Witness ==
    /\ Len(handlers) = 2
    /\ handlers[1].page # handlers[2].page
    /\ pages[handlers[1].page] = "open" /\ pages[handlers[2].page] = "open"
    /\ DocumentOf(handlers[1].response.body) = DocA
    /\ DocumentOf(handlers[2].response.body) = DocB
    /\ handlers[1].record # <<>>
    /\ handlers[2].record # <<>>
    /\ seen # {}

====
